---- MODULE Spec2Model ----
(***************************************************************************)
(* jfb: the incremental build engine (src/src/commands/build.rs,           *)
(* src/src/commands/build/deps.rs, src/src/config.rs).                     *)
(*                                                                         *)
(* One build invocation is a sequential program: Builder::new loads the    *)
(* change-detection cache and the compile database from the build          *)
(* directory, Builder::build fetches and builds the dependencies, runs     *)
(* compile_target for every target in declaration order and finally        *)
(* writes the artifacts.  Between invocations the environment modifies     *)
(* files.  External processes (git, cmake, the compiler, the linker, ar)   *)
(* and metadata reads succeed or fail nondeterministically.                *)
(***************************************************************************)
EXTENDS Integers, Sequences, FiniteSets, TLC

\* The clock runs from 1 to MaxTime.
MaxTime == 2

Times == 1..MaxTime

(***************************************************************************)
(* The project: paths, directory listings, configuration.                  *)
(***************************************************************************)

\* A path, split the way Path::extension / file_name / with_extension see it.
File(d, s, e) == [dir |-> d, stem |-> s, ext |-> e]

NoPath == File("", "", "")

\* args.opts.config
ConfigPath == File(".", "jfb", "toml")

\* The files a directory of the project holds when none is deleted, in the
\* order of a sorted listing.  No target of Targets names "gen" among its
\* source directories.
Tree(dir) ==
    CASE dir = "src" -> << File("src", "a", "c"), File("src", "b", "c"),
                           File("src", "notes", "txt") >>
      [] dir = "lib" -> << File("lib", "c", "cpp"), File("lib", "c", "h") >>
      [] dir = "gen" -> << File("gen", "a", "c"), File("gen", "c", "cc"),
                           File("gen", "c", "cxx") >>
      [] OTHER -> << >>

Range(s) == {s[i] : i \in DOMAIN s}

VARIABLE present    \* the filesystem: the files that exist

\* Shell::read_dir: the immediate entries of a directory, sorted.
DirEntries(dir) == SelectSeq(Tree(dir), LAMBDA e : e \in present)

\* Option<T>: None, or Some(v).
None == << >>

Some(v) == << v >>

\* BuildConfigOverrides::default
NoOverrides ==
    [opt_level |-> None, c_compiler |-> None, cpp_compiler |-> None,
     c_standard |-> None, cpp_standard |-> None, c_linker |-> None,
     cpp_linker |-> None, debug |-> None, warnings_as_errors |-> None,
     warnings |-> None, flags |-> None, defines |-> None]

\* config.targets, in declaration order.  A library reference is the
\* sequence of the characters of its path.
Targets ==
    << [name |-> "app", target_type |-> "Binary", language |-> "C",
        source_dirs |-> << "src" >>, include_dirs |-> << "include" >>,
        library_dirs |-> << >>,
        libraries |-> << << "l", "i", "b", "m", ".", "a" >> >>,
        build_overrides |-> None],
       [name |-> "util", target_type |-> "StaticLibrary", language |-> "Cpp",
        source_dirs |-> << "lib" >>, include_dirs |-> << "include" >>,
        library_dirs |-> << >>, libraries |-> << >>,
        build_overrides |-> Some([NoOverrides EXCEPT !.flags = Some(<< "-fPIC" >>)])] >>

\* config.dependencies (the keys of the map).
Dependencies == {"fmt", "zlib"}

\* The extension test of compile_target's discovery loop.
MatchesLanguage(language, ext) ==
    \/ language = "C" /\ ext = "c"
    \/ language = "Cpp" /\ ext \in {"cpp", "cc", "cxx"}

\* out_dir.join(entry.with_extension("o").file_name())
ObjectFile(target, entry) == File(target.name, entry.stem, "o")

RECURSIVE DiscoverDirs(_, _)
DiscoverDirs(target, dirs) ==
    IF dirs = << >> THEN << >>
    ELSE SelectSeq(DirEntries(Head(dirs)),
                   LAMBDA e : MatchesLanguage(target.language, e.ext))
         \o DiscoverDirs(target, Tail(dirs))

\* src_files of a target, in discovery order.
Discover(target) == DiscoverDirs(target, target.source_dirs)

\* Every file of the project's source directories.
AllFiles ==
    UNION {UNION {Range(Tree(d)) : d \in Range(Targets[i].source_dirs)} :
              i \in DOMAIN Targets}

\* Every file that is a source of some target when it exists.
Sources ==
    {e \in AllFiles :
        \E i \in DOMAIN Targets :
            /\ e.dir \in Range(Targets[i].source_dirs)
            /\ MatchesLanguage(Targets[i].language, e.ext)}

Paths == {ConfigPath} \cup Sources

(***************************************************************************)
(* FileUpdateCache                                                         *)
(***************************************************************************)

\* FileUpdateCache::new
EmptyMap == [p \in {} |-> 0]

\* A variant of Insert that keeps the value a key already has.
Insert_KeepOld(map, key, value) ==
    [k \in DOMAIN map \cup {key} |-> IF k \in DOMAIN map THEN map[k] ELSE value]

\* A variant of Insert that keeps no other key.
Insert_Alone(map, key, value) == [k \in {key} |-> value]

\* HashMap::insert
Insert(map, key, value) ==
    [k \in DOMAIN map \cup {key} |-> IF k = key THEN value ELSE map[k]]

\* Variants of is_updated that a slip in the comparison or the insert gives.
is_updated_NotStrict(cache, path, metadata) ==
    IF ~metadata.ok THEN [ok |-> FALSE, ret |-> FALSE, cache |-> cache]
    ELSE LET r == IF path \in DOMAIN cache THEN metadata.modified >= cache[path]
                  ELSE TRUE
         IN [ok |-> TRUE, ret |-> r,
             cache |-> IF r THEN Insert(cache, path, metadata.modified) ELSE cache]

is_updated_NotEqual(cache, path, metadata) ==
    IF ~metadata.ok THEN [ok |-> FALSE, ret |-> FALSE, cache |-> cache]
    ELSE LET r == IF path \in DOMAIN cache THEN metadata.modified # cache[path]
                  ELSE TRUE
         IN [ok |-> TRUE, ret |-> r,
             cache |-> IF r THEN Insert(cache, path, metadata.modified) ELSE cache]

is_updated_Inverted(cache, path, metadata) ==
    IF ~metadata.ok THEN [ok |-> FALSE, ret |-> FALSE, cache |-> cache]
    ELSE LET r == IF path \in DOMAIN cache THEN metadata.modified < cache[path]
                  ELSE TRUE
         IN [ok |-> TRUE, ret |-> r,
             cache |-> IF r THEN Insert(cache, path, metadata.modified) ELSE cache]

is_updated_RecordsOnError(cache, path, metadata) ==
    IF ~metadata.ok
    THEN [ok |-> FALSE, ret |-> FALSE, cache |-> Insert(cache, path, 0)]
    ELSE LET r == IF path \in DOMAIN cache THEN metadata.modified > cache[path]
                  ELSE TRUE
         IN [ok |-> TRUE, ret |-> r,
             cache |-> IF r THEN Insert(cache, path, metadata.modified) ELSE cache]

is_updated_NoInsert(cache, path, metadata) ==
    IF ~metadata.ok THEN [ok |-> FALSE, ret |-> FALSE, cache |-> cache]
    ELSE LET r == IF path \in DOMAIN cache THEN metadata.modified > cache[path]
                  ELSE TRUE
         IN [ok |-> TRUE, ret |-> r, cache |-> cache]

\* FileUpdateCache::is_updated.  metadata is what std::fs::metadata and
\* Metadata::modified give: an error, or the modification time.
is_updated(cache, path, metadata) ==
    IF ~metadata.ok THEN [ok |-> FALSE, ret |-> FALSE, cache |-> cache]
    ELSE LET r == IF path \in DOMAIN cache THEN metadata.modified > cache[path]
                  ELSE TRUE
         IN [ok |-> TRUE, ret |-> r,
             cache |-> IF r THEN Insert(cache, path, metadata.modified) ELSE cache]

(***************************************************************************)
(* Error propagation and the per-file staleness decision.                  *)
(***************************************************************************)

\* A variant of Propagate in which a failed step does not end the invocation.
Propagate_Ignore(ok, continue) == continue

\* The `?` on every fallible step of Builder::build and what it calls: an
\* error ends the invocation at once, success goes on to `continue`.
Propagate(ok, continue) == IF ok THEN continue ELSE "failed"

\* A variant of StaleCheck that forgets the build-wide flag.
StaleCheck_NoConfigFlag(cfg_updated, cache, src, metadata) ==
    is_updated(cache, src, metadata)

\* `self.config_updated || self.file_cache.is_updated(src)?`: the right
\* operand is evaluated only when config_updated is false.
StaleCheck(cfg_updated, cache, src, metadata) ==
    IF cfg_updated THEN [ok |-> TRUE, ret |-> TRUE, cache |-> cache]
    ELSE is_updated(cache, src, metadata)

(***************************************************************************)
(* Configuration resolution and the compile command of one source file.    *)
(***************************************************************************)

\* config.build (BuildConfig::default, with shorter lists).
BuildConfig ==
    [c_compiler |-> "gcc", cpp_compiler |-> "g++",
     c_standard |-> "c11", cpp_standard |-> "c++11",
     c_linker |-> "gcc", cpp_linker |-> "g++",
     opt_level |-> "0", debug |-> TRUE, warnings_as_errors |-> FALSE,
     warnings |-> << "all", "extra" >>, flags |-> << "-fno-common" >>,
     defines |-> << >>]

\* `target.build_overrides.as_ref().and_then(|overrides| overrides.<field>)`
Override(target, field) ==
    IF target.build_overrides = None THEN None
    ELSE target.build_overrides[1][field]

\* A variant of UnwrapOr that takes the default whatever the option holds.
UnwrapOr_Default(option, default) == default

\* Option::unwrap_or
UnwrapOr(option, default) == IF option = None THEN default ELSE option[1]

\* iter().map(|x| format!("<prefix>{}", x)).collect()
Prefixed(prefix, list) == [i \in DOMAIN list |-> prefix \o list[i]]

\* The language-specific field of config.build or of the overrides.
ForLanguage(target, c_field, cpp_field) ==
    IF target.language = "C" THEN c_field ELSE cpp_field

\* compile_file: `compiler`
Compiler(cfg, target) ==
    LET field == ForLanguage(target, "c_compiler", "cpp_compiler")
    IN UnwrapOr(Override(target, field), cfg[field])

\* compile_file: `standard`
Standard(cfg, target) ==
    LET field == ForLanguage(target, "c_standard", "cpp_standard")
    IN UnwrapOr(Override(target, field), cfg[field])

\* compile_file: `include_dirs`
IncludeDirs(target) == Prefixed("-I", target.include_dirs)

\* compile_file: `defines`
Defines(cfg) == Prefixed("-D", cfg.defines)

\* A variant of Flags in which the override list replaces the global list.
Flags_OverrideReplaces(cfg, target) ==
    UnwrapOr(Override(target, "flags"), cfg.flags)

\* compile_file: `flags`
Flags(cfg, target) ==
    cfg.flags \o UnwrapOr(Override(target, "flags"), << >>)

\* compile_file: `opt_level`
OptLevel(cfg, target) ==
    "-O" \o UnwrapOr(Override(target, "opt_level"), cfg.opt_level)

\* compile_file: `warnings`
Warnings(cfg, target) ==
    Prefixed("-W", cfg.warnings \o UnwrapOr(Override(target, "warnings"), << >>))

\* compile_file: `extra_args`
ExtraArgs(cfg, target) ==
    (IF UnwrapOr(Override(target, "debug"), cfg.debug)
     THEN << "-g" >> ELSE << >>)
    \o (IF UnwrapOr(Override(target, "warnings_as_errors"), cfg.warnings_as_errors)
        THEN << "-Werror" >> ELSE << >>)

\* A variant of CompileArguments in which the defines of the override block
\* are appended to the global defines, as its flags and warnings are.
CompileArguments_OverrideDefines(cfg, target, src, obj) ==
    [program |-> Compiler(cfg, target),
     std |-> "-std=" \o Standard(cfg, target),
     flags |-> Flags(cfg, target),
     defines |-> Prefixed("-D", cfg.defines
                                  \o UnwrapOr(Override(target, "defines"), << >>)),
     include_dirs |-> IncludeDirs(target),
     warnings |-> Warnings(cfg, target),
     extra_args |-> ExtraArgs(cfg, target),
     opt_level |-> OptLevel(cfg, target),
     src |-> src, obj |-> obj]

\* The command compile_file assembles for src, part by part in the order
\* of the command line, and the CompileCommand it records.  The recorded
\* arguments are the command line split at whitespace; no argument here
\* holds any.
CompileArguments(cfg, target, src, obj) ==
    [program |-> Compiler(cfg, target),
     std |-> "-std=" \o Standard(cfg, target),
     flags |-> Flags(cfg, target),
     defines |-> Defines(cfg),
     include_dirs |-> IncludeDirs(target),
     warnings |-> Warnings(cfg, target),
     extra_args |-> ExtraArgs(cfg, target),
     opt_level |-> OptLevel(cfg, target),
     src |-> src, obj |-> obj]

\* src.to_string_lossy(): the text of a path, here the texts of its
\* components.  The names of the project are valid UTF-8, so nothing is
\* replaced.
ToStringLossy(path) == << path.dir, path.stem, path.ext >>

\* PathBuf::from(&compile_command.file)
PathFrom(text) == File(text[1], text[2], text[3])

CompileCommand(cfg, target, src, obj) ==
    [directory |-> "base_dir",
     arguments |-> CompileArguments(cfg, target, src, obj),
     file |-> ToStringLossy(src)]

(***************************************************************************)
(* The link or archive command of one target.                              *)
(***************************************************************************)

\* compile_target: `linker`
Linker(cfg, target) ==
    UnwrapOr(Override(target, ForLanguage(target, "c_linker", "cpp_linker")),
             cfg[ForLanguage(target, "c_compiler", "cpp_compiler")])

\* The greatest of a nonempty set of numbers.
Last(indices) == CHOOSE i \in indices : \A j \in indices : j <= i

\* Path::file_name: the characters after the last separator.
FileName(path) ==
    LET separators == {i \in DOMAIN path : path[i] = "/"}
    IN IF separators = {} THEN path
       ELSE SubSeq(path, Last(separators) + 1, Len(path))

\* Path::file_stem: the file name up to its last dot, or all of it when it
\* has no dot but a leading one.
FileStem(path) ==
    LET name == FileName(path)
        dots == {i \in DOMAIN name : i > 1 /\ name[i] = "."}
    IN IF dots = {} THEN name ELSE SubSeq(name, 1, Last(dots) - 1)

\* A variant of StripPrefixLib that keeps the prefix.
StripPrefixLib_Keep(name) == name

\* lib_name.strip_prefix("lib").unwrap_or(&lib_name)
StripPrefixLib(name) ==
    IF Len(name) >= 3 /\ SubSeq(name, 1, 3) = << "l", "i", "b" >>
    THEN SubSeq(name, 4, Len(name)) ELSE name

\* format!("-l{}", ...) for one library reference
LibraryFlag(lib) == << "-", "l" >> \o StripPrefixLib(FileStem(lib))

\* A variant of ObjectFiles that passes the first object file only.
ObjectFiles_FirstOnly(target) ==
    LET src_files == Discover(target)
    IN [i \in DOMAIN src_files \cap {1} |-> ObjectFile(target, src_files[i])]

\* compile_target: `obj_files`
ObjectFiles(target) ==
    LET src_files == Discover(target)
    IN [i \in DOMAIN src_files |-> ObjectFile(target, src_files[i])]

\* The command compile_target runs for a Binary, part by part.
LinkCommand(cfg, target) ==
    [program |-> Linker(cfg, target),
     obj_files |-> ObjectFiles(target),
     library_paths |-> Prefixed("-L", target.library_dirs),
     libraries |-> [i \in DOMAIN target.libraries |->
                       LibraryFlag(target.libraries[i])],
     output |-> File(target.name, target.name, "")]

\* The command compile_target runs for a StaticLibrary, part by part.
ArchiveCommand(target) ==
    [program |-> "ar", mode |-> "rcs",
     output |-> File(target.name, "lib" \o target.name, "a"),
     obj_files |-> ObjectFiles(target)]

(***************************************************************************)
(* The build directory's artifacts.                                        *)
(***************************************************************************)

\* A file of the build directory that does not exist yet.
Absent == [exists |-> FALSE, data |-> EmptyMap]

\* Builder::new, lines 68-77: the cache file's content, or a new cache.
LoadCache(disk) == IF disk.cache.exists THEN disk.cache.data ELSE EmptyMap

\* A variant of FromEntries in which the first entry of a path stays.
RECURSIVE FromEntries_FirstWins(_, _)
FromEntries_FirstWins(entries, map) ==
    IF entries = << >> THEN map
    ELSE LET path == PathFrom(Head(entries).file)
         IN FromEntries_FirstWins(Tail(entries),
                                  IF path \in DOMAIN map THEN map
                                  ELSE Insert(map, path, Head(entries)))

\* Builder::new, lines 92-97: the loop that inserts every entry of the
\* vector into the map, under the path its file field names.
RECURSIVE FromEntries(_, _)
FromEntries(entries, map) ==
    IF entries = << >> THEN map
    ELSE FromEntries(Tail(entries),
                     Insert(map, PathFrom(Head(entries).file), Head(entries)))

\* Builder::new, lines 82-99: the compile database, a vector of entries on
\* disk, as a map.
LoadCommands(disk) ==
    IF disk.commands.exists THEN FromEntries(disk.commands.data, EmptyMap)
    ELSE EmptyMap

\* compile_commands.values().collect(): the values of the map, each once,
\* in any of the orders an iteration can have.
Values(map) ==
    LET n == Cardinality(DOMAIN map)
    IN {[i \in 1..n |-> map[order[i]]] :
           order \in {f \in [1..n -> DOMAIN map] :
                         \A i, j \in 1..n : f[i] = f[j] => i = j}}

\* One of these orders.  The order does not reach a later invocation,
\* which keys the entries by their file field again.
SomeOrder(map) == CHOOSE entries \in Values(map) : TRUE

\* Builder::write_build_artifacts, writing the entries in the given order.
write_build_artifacts(disk, entries, cache) ==
    [commands |-> [exists |-> TRUE, data |-> entries],
     cache |-> [exists |-> TRUE, data |-> cache]]

(***************************************************************************)
(* State.                                                                  *)
(***************************************************************************)

VARIABLES
    now,                      \* the clock
    mtime,                    \* the filesystem: modification time of every path
    disk,                     \* build_dir/jfb_cache.json and compile_commands.json
    dep_dirs,                 \* the dependencies whose <dep_dir>/<name> exists
    output_compile_commands,  \* config.build.output_compile_commands
    pc,                       \* where the invocation is; "idle": none is running
    err,                      \* the error the invocation ends with
    file_cache,               \* Builder.file_cache
    compile_commands,         \* Builder.compile_commands
    config_updated,           \* Builder.config_updated
    deps_todo,                \* the dependencies the running loop has not reached
    target_idx,               \* the target of Builder::build's loop
    src_idx,                  \* the source of compile_target's compile loop
    log,                      \* history: the steps of this invocation
    disk_at_start,            \* history: disk when this invocation started
    prev,                     \* history: how the previous invocation ended
    touched,                  \* history: the paths modified since it ended
    call,                     \* history: the last is_updated call (CacheSpec)
    prev_call,                \* history: the call before it (CacheSpec)
    config_build,             \* config.build, where it is an input
    config_target,            \* one of config.targets, where it is an input
    command                   \* the last command assembled from these

vars == << now, mtime, disk, dep_dirs, output_compile_commands, pc, err, file_cache,
           compile_commands, config_updated, deps_todo, target_idx, src_idx,
           log, disk_at_start, prev, touched, call, prev_call, present,
           config_build, config_target, command >>

builder == << file_cache, compile_commands, config_updated, deps_todo,
              target_idx, src_idx >>

resolver == << config_build, config_target, command >>

Event(op, name, file, ok) == [op |-> op, name |-> name, file |-> file, ok |-> ok]

NoCall == [path |-> NoPath, readable |-> FALSE, modified |-> 0, had |-> FALSE,
           before |-> 0, ok |-> FALSE, ret |-> FALSE, fresh |-> FALSE]

NoPrev == [result |-> "none", noop |-> FALSE, config_updated |-> FALSE,
           failed_compile |-> {}]

\* std::fs::metadata(path)?.modified()?
Metadata(path, readable) ==
    IF readable THEN [ok |-> TRUE, modified |-> mtime[path]]
    ELSE [ok |-> FALSE, modified |-> 0]

\* No command assembled yet.
NoCommand == [op |-> "none"]

FirstError(failed, kind) == IF failed /\ err = "none" THEN kind ELSE err

\* Where compile_target starts for target i: its compile loop, or its
\* link step when it has no source file.
TargetStart(i) == IF Discover(Targets[i]) = << >> THEN "link" ELSE "compile"

Init ==
    /\ now = 1
    /\ mtime = [p \in Paths |-> 1]
    /\ disk = [cache |-> Absent, commands |-> Absent]
    /\ dep_dirs = {}
    /\ output_compile_commands \in BOOLEAN
    /\ pc = "idle"
    /\ err = "none"
    /\ file_cache = EmptyMap
    /\ compile_commands = EmptyMap
    /\ config_updated = FALSE
    /\ deps_todo = Dependencies
    /\ target_idx = 1
    /\ src_idx = 1
    /\ log = << >>
    /\ disk_at_start = disk
    /\ prev = NoPrev
    /\ touched = {}
    /\ call = NoCall
    /\ prev_call = NoCall
    /\ present = AllFiles
    /\ config_build = BuildConfig
    /\ config_target = Targets[1]
    /\ command = NoCommand

(***************************************************************************)
(* The environment, between two invocations.  Writing a file stamps it     *)
(* with the current time, and the clock moves on; putting an older         *)
(* version of a file back (a checkout, an archive extracted with its       *)
(* times) gives it an older time.                                          *)
(***************************************************************************)

\* At most one path is remembered; more than one is remembered as all.
Touching(p) == IF touched \subseteq {p} THEN {p} ELSE Paths

Modify(p) ==
    /\ pc = "idle"
    /\ now < MaxTime
    /\ now' = now + 1
    /\ mtime' = [mtime EXCEPT ![p] = now + 1]
    /\ touched' = Touching(p)
    /\ UNCHANGED << present, resolver, disk, dep_dirs, output_compile_commands,
                    pc, err, builder, log, disk_at_start, prev, call,
                    prev_call >>

Restore(p) ==
    /\ pc = "idle"
    /\ \E t \in 1..(mtime[p] - 1) : mtime' = [mtime EXCEPT ![p] = t]
    /\ touched' = Touching(p)
    /\ UNCHANGED << present, resolver, now, disk, dep_dirs,
                    output_compile_commands, pc, err, builder, log,
                    disk_at_start, prev, call, prev_call >>

(***************************************************************************)
(* One build invocation.                                                   *)
(***************************************************************************)

\* Builder::new, and Builder::build up to the dependency stage.
New ==
    /\ pc = "idle"
    /\ \E readable \in BOOLEAN :
         LET r == is_updated(LoadCache(disk), ConfigPath,
                             Metadata(ConfigPath, readable))
         IN /\ file_cache' = r.cache
            /\ config_updated' = r.ret
            /\ pc' = Propagate(r.ok, "fetch")
            /\ err' = IF r.ok THEN "none" ELSE "FileSystem"
    /\ compile_commands' = LoadCommands(disk)
    /\ deps_todo' = Dependencies
    /\ target_idx' = 1
    /\ src_idx' = 1
    /\ log' = << >>
    /\ disk_at_start' = disk
    /\ UNCHANGED << present, resolver, now, mtime, disk, dep_dirs,
                    output_compile_commands, prev, touched, call, prev_call >>

\* A variant of TargetPathExists that never finds the directory.
TargetPathExists_Never(d, dirs) == FALSE

\* A variant of TargetPathExists that finds every directory.
TargetPathExists_Always(d, dirs) == TRUE

\* target_path.exists(), for target_path = <dep_dir>/<d>.
TargetPathExists(d, dirs) == d \in dirs

\* A variant of NextDependency that leaves the loop after one dependency.
NextDependency_Early(rest, stage, after) == after

\* `for (dep_name, dep) in self.config.dependencies.iter()`: the stage goes
\* on until no dependency is left, and only then the next stage starts.
NextDependency(rest, stage, after) == IF rest = {} THEN after ELSE stage

\* Builder::fetch_dependencies: download_dependency for the next dependency
\* of the map's iteration.
FetchDependency ==
    /\ pc = "fetch"
    /\ \E d \in deps_todo, exit_ok \in BOOLEAN :
         LET rest == deps_todo \ {d}
             cloned == ~TargetPathExists(d, dep_dirs)
             ok == ~cloned \/ exit_ok
         IN /\ log' = IF cloned THEN Append(log, Event("clone", d, NoPath, exit_ok))
                      ELSE log
            /\ dep_dirs' = IF cloned /\ exit_ok THEN dep_dirs \cup {d} ELSE dep_dirs
            /\ pc' = Propagate(ok, NextDependency(rest, "fetch", "depbuild"))
            /\ err' = FirstError(~ok, "ExternalProcess")
            /\ deps_todo' = IF pc' = "fetch" THEN rest ELSE Dependencies
    /\ UNCHANGED << present, resolver, now, mtime, disk,
                    output_compile_commands, file_cache, compile_commands,
                    config_updated, target_idx, src_idx, disk_at_start, prev,
                    touched, call, prev_call >>

\* Builder::build_dependencies: build_dependency for the next dependency.
BuildDependency ==
    /\ pc = "depbuild"
    /\ \E d \in deps_todo, outcome \in {"ok", "configure", "build"} :
         LET rest == deps_todo \ {d}
             found == TargetPathExists(d, dep_dirs)
             ok == found /\ outcome = "ok"
             ran == IF outcome = "configure"
                    THEN << Event("configure", d, NoPath, FALSE) >>
                    ELSE << Event("configure", d, NoPath, TRUE),
                            Event("cmake_build", d, NoPath, outcome = "ok") >>
         IN /\ log' = IF found THEN log \o ran ELSE log
            /\ pc' = Propagate(ok, NextDependency(rest, "depbuild", TargetStart(1)))
            /\ err' = FirstError(~ok, IF found THEN "ExternalProcess"
                                      ELSE "DependencyMissing")
            /\ deps_todo' = IF pc' = "depbuild" THEN rest ELSE Dependencies
    /\ UNCHANGED << present, resolver, now, mtime, disk, dep_dirs,
                    output_compile_commands, file_cache, compile_commands,
                    config_updated, target_idx, src_idx, disk_at_start, prev,
                    touched, call, prev_call >>

\* The start of compile_target: `self.sh.create_dir(&out_dir)`, once per
\* target and before anything else of the target, in the first step the
\* target takes.
CreateOutDir(target, first) ==
    IF first THEN Append(log, Event("create_dir", target.name, NoPath, TRUE))
    ELSE log

\* One iteration of compile_target's compile loop, compile_file included;
\* the first one starts compile_target.
CompileSource ==
    /\ pc = "compile"
    /\ \E readable \in BOOLEAN, exit_ok \in BOOLEAN :
         LET target == Targets[target_idx]
             srcs == Discover(target)
             src == srcs[src_idx]
             obj == ObjectFile(target, src)
             r == StaleCheck(config_updated, file_cache, src,
                             Metadata(src, readable))
             compiled == r.ok /\ r.ret
             ok == r.ok /\ (r.ret => exit_ok)
             after == IF src_idx < Len(srcs) THEN "compile" ELSE "link"
         IN /\ file_cache' = r.cache
            /\ compile_commands' =
                 IF compiled /\ output_compile_commands
                 THEN Insert(compile_commands, src,
                             CompileCommand(BuildConfig, target, src, obj))
                 ELSE compile_commands
            /\ log' = LET started == CreateOutDir(target, src_idx = 1)
                       IN IF ~r.ok THEN started
                          ELSE IF r.ret
                          THEN Append(started,
                                      Event("compile", target.name, src, exit_ok))
                          ELSE Append(started, Event("skip", target.name, src, TRUE))
            /\ pc' = Propagate(ok, after)
            /\ err' = FirstError(~ok, IF r.ok THEN "ExternalProcess"
                                      ELSE "FileSystem")
            /\ src_idx' = IF src_idx < Len(srcs) THEN src_idx + 1 ELSE src_idx
    /\ UNCHANGED << present, resolver, now, mtime, disk, dep_dirs,
                    output_compile_commands, config_updated, deps_todo,
                    target_idx, disk_at_start, prev, touched, call, prev_call >>

\* The end of compile_target: the linker for a Binary, ar for a StaticLibrary.
\* For a target without source files it is the start of compile_target too.
LinkTarget ==
    /\ pc = "link"
    /\ \E exit_ok \in BOOLEAN :
         LET target == Targets[target_idx]
             op == IF target.target_type = "Binary" THEN "link" ELSE "archive"
             last == target_idx = Len(Targets)
             started == CreateOutDir(target, Discover(target) = << >>)
         IN /\ log' = Append(started, Event(op, target.name, NoPath, exit_ok))
            /\ command' = [op |-> op,
                           arguments |-> IF op = "link"
                                         THEN LinkCommand(BuildConfig, target)
                                         ELSE ArchiveCommand(target)]
            /\ pc' = Propagate(exit_ok, IF last THEN "finish"
                                        ELSE TargetStart(target_idx + 1))
            /\ err' = FirstError(~exit_ok, "ExternalProcess")
            /\ target_idx' = IF last THEN target_idx ELSE target_idx + 1
    /\ src_idx' = 1
    /\ UNCHANGED << present, config_build, config_target, now, mtime, disk,
                    dep_dirs, output_compile_commands, file_cache,
                    compile_commands, config_updated, deps_todo, disk_at_start,
                    prev, touched, call, prev_call >>

\* Builder::build after the target loop.
Finish ==
    /\ pc = "finish"
    /\ disk' = IF output_compile_commands
               THEN write_build_artifacts(disk, SomeOrder(compile_commands),
                                          file_cache)
               ELSE disk
    /\ log' = IF output_compile_commands
              THEN Append(log, Event("write", "", NoPath, TRUE)) ELSE log
    /\ pc' = "done"
    /\ UNCHANGED << present, resolver, now, mtime, dep_dirs,
                    output_compile_commands, err, builder, disk_at_start, prev,
                    touched, call, prev_call >>

CompileEvents == {i \in DOMAIN log : log[i].op = "compile"}

\* The process ends: the Builder is dropped.
Exit ==
    /\ pc \in {"done", "failed"}
    /\ pc' = "idle"
    /\ prev' = [result |-> IF pc = "done" /\ err = "none" THEN "ok" ELSE "err",
                noop |-> CompileEvents = {},
                config_updated |-> config_updated,
                failed_compile |-> {log[i].file : i \in {j \in CompileEvents : ~log[j].ok}}]
    /\ touched' = {}
    /\ err' = "none"
    /\ file_cache' = EmptyMap
    /\ compile_commands' = EmptyMap
    /\ config_updated' = FALSE
    /\ deps_todo' = Dependencies
    /\ target_idx' = 1
    /\ src_idx' = 1
    /\ log' = << >>
    /\ disk_at_start' = disk
    /\ command' = NoCommand
    /\ UNCHANGED << present, config_build, config_target, now, mtime, disk,
                    dep_dirs, output_compile_commands, call, prev_call >>

Next ==
    \/ \E p \in Paths : Modify(p)
    \/ \E p \in Paths : Restore(p)
    \/ New
    \/ FetchDependency
    \/ BuildDependency
    \/ CompileSource
    \/ LinkTarget
    \/ Finish
    \/ Exit

Spec == Init /\ [][Next]_vars

(***************************************************************************)
(* Builds of a project whose source files come and go: between two         *)
(* invocations the environment deletes a source file or creates one.       *)
(***************************************************************************)

DeleteSource(p) ==
    /\ pc = "idle"
    /\ p \in present
    /\ present' = present \ {p}
    /\ touched' = Touching(p)
    /\ UNCHANGED << resolver, now, mtime, disk, dep_dirs,
                    output_compile_commands, pc, err, builder, log,
                    disk_at_start, prev, call, prev_call >>

\* The new file has the time of its creation.
AddSource(p) ==
    /\ pc = "idle"
    /\ p \notin present
    /\ present' = present \cup {p}
    /\ mtime' = [mtime EXCEPT ![p] = now]
    /\ touched' = Touching(p)
    /\ UNCHANGED << resolver, now, disk, dep_dirs, output_compile_commands, pc,
                    err, builder, log, disk_at_start, prev, call, prev_call >>

TreeNext ==
    \/ \E p \in Sources : DeleteSource(p)
    \/ \E p \in Sources : AddSource(p)
    \/ New
    \/ FetchDependency
    \/ BuildDependency
    \/ CompileSource
    \/ LinkTarget
    \/ Finish
    \/ Exit

TreeSpec == Init /\ [][TreeNext]_vars

(***************************************************************************)
(* Builds during which dependency directories disappear: the environment   *)
(* removes <dep_dir>/<name> between two invocations or while the           *)
(* dependency stages of one run.                                           *)
(***************************************************************************)

RemoveDependency(d) ==
    /\ pc \in {"idle", "fetch", "depbuild"}
    /\ d \in dep_dirs
    /\ dep_dirs' = dep_dirs \ {d}
    /\ UNCHANGED << present, resolver, now, mtime, disk,
                    output_compile_commands, pc, err, builder, log,
                    disk_at_start, prev, touched, call, prev_call >>

DepsNext ==
    \/ \E d \in Dependencies : RemoveDependency(d)
    \/ New
    \/ FetchDependency
    \/ BuildDependency
    \/ CompileSource
    \/ LinkTarget
    \/ Finish
    \/ Exit

DepsSpec == Init /\ [][DepsNext]_vars

(***************************************************************************)
(* FileUpdateCache on its own: is_updated applied to any cache, any path   *)
(* and any file state, with the file's time changed freely in between.     *)
(***************************************************************************)

CachePaths == {ConfigPath, File("src", "a", "c")}

Maps(keys, values) == UNION {[d -> values] : d \in SUBSET keys}

CacheInit ==
    /\ now = 1
    /\ mtime \in [Paths -> Times]
    /\ \A p \in Paths \ CachePaths : mtime[p] = 1
    /\ file_cache \in Maps(CachePaths, Times)
    /\ pc = "cache"
    /\ disk = [cache |-> Absent, commands |-> Absent]
    /\ dep_dirs = {}
    /\ output_compile_commands = TRUE
    /\ err = "none"
    /\ compile_commands = EmptyMap
    /\ config_updated = FALSE
    /\ deps_todo = Dependencies
    /\ target_idx = 1
    /\ src_idx = 1
    /\ log = << >>
    /\ disk_at_start = disk
    /\ prev = NoPrev
    /\ touched = {}
    /\ call = NoCall
    /\ prev_call = NoCall
    /\ present = AllFiles
    /\ config_build = BuildConfig
    /\ config_target = Targets[1]
    /\ command = NoCommand

\* file_cache.is_updated(p)
CacheCall(p) ==
    /\ pc = "cache"
    /\ \E readable \in BOOLEAN :
         LET metadata == Metadata(p, readable)
             r == is_updated(file_cache, p, metadata)
         IN /\ file_cache' = r.cache
            /\ call' = [path |-> p, readable |-> readable,
                        modified |-> metadata.modified,
                        had |-> p \in DOMAIN file_cache,
                        before |-> IF p \in DOMAIN file_cache THEN file_cache[p]
                                   ELSE 0,
                        ok |-> r.ok, ret |-> r.ret, fresh |-> TRUE]
    /\ prev_call' = call
    /\ UNCHANGED << present, resolver, now, mtime, disk, dep_dirs,
                    output_compile_commands, pc, err, compile_commands,
                    config_updated, deps_todo, target_idx, src_idx, log,
                    disk_at_start, prev, touched >>

\* The file at p gets another modification time, newer or older.
CacheSetTime(p) ==
    /\ pc = "cache"
    /\ \E t \in Times \ {mtime[p]} : mtime' = [mtime EXCEPT ![p] = t]
    /\ call' = IF call.path = p THEN [call EXCEPT !.fresh = FALSE] ELSE call
    /\ UNCHANGED << present, resolver, now, disk, dep_dirs,
                    output_compile_commands, pc, err, builder, log,
                    disk_at_start, prev, touched, prev_call >>

CacheNext ==
    \/ \E p \in CachePaths : CacheCall(p)
    \/ \E p \in CachePaths : CacheSetTime(p)

CacheSpec == CacheInit /\ [][CacheNext]_vars

(***************************************************************************)
(* compile_file on its own: the command it assembles for any global flag   *)
(* and warning lists and any override block of the target.                 *)
(***************************************************************************)

\* The longest list of a configuration.
MaxList == 1

Lists(names, n) == UNION {[1..k -> names] : k \in 0..n}

Options(values) == {None} \cup {Some(v) : v \in values}

\* The flags and warnings a configuration file names.
GlobalFlags == {"-fno-common", "-pipe"}

OverrideFlags == {"-fPIC", "-pipe"}

GlobalWarnings == {"all"}

OverrideWarnings == {"shadow"}

\* [build] tables.
Builds ==
    {[BuildConfig EXCEPT !.flags = f, !.warnings = w] :
        f \in Lists(GlobalFlags, MaxList), w \in Lists(GlobalWarnings, MaxList)}

\* [target.build] tables, or none.
OverrideBlocks ==
    Options({[NoOverrides EXCEPT !.flags = f, !.warnings = w] :
                f \in Options(Lists(OverrideFlags, MaxList)),
                w \in Options(Lists(OverrideWarnings, MaxList))})

\* Every variable but the three of the resolver, at rest.
Rest ==
    /\ now = 1
    /\ mtime = [p \in Paths |-> 1]
    /\ present = AllFiles
    /\ disk = [cache |-> Absent, commands |-> Absent]
    /\ dep_dirs = {}
    /\ output_compile_commands = TRUE
    /\ err = "none"
    /\ file_cache = EmptyMap
    /\ compile_commands = EmptyMap
    /\ config_updated = FALSE
    /\ deps_todo = Dependencies
    /\ target_idx = 1
    /\ src_idx = 1
    /\ log = << >>
    /\ disk_at_start = disk
    /\ prev = NoPrev
    /\ touched = {}
    /\ call = NoCall
    /\ prev_call = NoCall

ArgsInit ==
    /\ Rest
    /\ pc = "args"
    /\ config_build \in Builds
    /\ \E i \in DOMAIN Targets, o \in OverrideBlocks :
          config_target = [Targets[i] EXCEPT !.build_overrides = o]
    /\ command = NoCommand

\* self.compile_file(src, obj, target), up to the command it runs.
CompileFile(src) ==
    /\ pc = "args"
    /\ command' = [op |-> "compile",
                   arguments |-> CompileArguments(config_build, config_target, src,
                                                  ObjectFile(config_target, src))]
    /\ UNCHANGED << present, now, mtime, disk, dep_dirs,
                    output_compile_commands, pc, err, builder, log,
                    disk_at_start, prev, touched, call, prev_call, config_build,
                    config_target >>

ArgsNext == \E src \in Range(Discover(config_target)) : CompileFile(src)

ArgsSpec == ArgsInit /\ [][ArgsNext]_vars

(***************************************************************************)
(* compile_file for any global defines and any defines of the override     *)
(* block.                                                                  *)
(***************************************************************************)

\* The longest list of defines.
MaxDefines == 2

\* The defines a configuration file names.
GlobalDefines == {"NDEBUG", "X=1"}

OverrideDefines == {"NDEBUG", "Y"}

DefinesInit ==
    /\ Rest
    /\ pc = "args"
    /\ \E d \in Lists(GlobalDefines, MaxDefines) :
          config_build = [BuildConfig EXCEPT !.defines = d]
    /\ \E i \in DOMAIN Targets,
          o \in Options({[NoOverrides EXCEPT !.defines = d] :
                            d \in Options(Lists(OverrideDefines, MaxDefines))}) :
          config_target = [Targets[i] EXCEPT !.build_overrides = o]
    /\ command = NoCommand

DefinesSpec == DefinesInit /\ [][ArgsNext]_vars

(***************************************************************************)
(* compile_file for any global and any override value of the fields that   *)
(* hold one value: compilers, standards, optimization level, debug and     *)
(* warnings-as-errors.                                                     *)
(***************************************************************************)

\* [build] tables.
ScalarBuilds ==
    {[BuildConfig EXCEPT !.opt_level = o, !.debug = g, !.warnings_as_errors = e] :
        o \in {"0", "2"}, g \in BOOLEAN, e \in BOOLEAN}

\* [target.build] tables, or none.
ScalarOverrides ==
    Options({[NoOverrides EXCEPT !.c_compiler = cc, !.cpp_compiler = cxx,
                                 !.c_standard = cs, !.cpp_standard = cxxs,
                                 !.opt_level = o, !.debug = g,
                                 !.warnings_as_errors = e] :
                cc \in Options({"clang"}), cxx \in Options({"clang++"}),
                cs \in Options({"c99"}), cxxs \in Options({"c++17"}),
                o \in Options({"3"}), g \in Options(BOOLEAN),
                e \in Options(BOOLEAN)})

ScalarInit ==
    /\ Rest
    /\ pc = "args"
    /\ config_build \in ScalarBuilds
    /\ \E i \in DOMAIN Targets, o \in ScalarOverrides :
          config_target = [Targets[i] EXCEPT !.build_overrides = o]
    /\ command = NoCommand

ScalarSpec == ScalarInit /\ [][ArgsNext]_vars

(***************************************************************************)
(* compile_file for the sources of a target with any source directories:   *)
(* the object file each compile step writes.                               *)
(***************************************************************************)

\* The longest list of source directories.
MaxDirs == 2

SourceDirs == {"src", "lib", "gen"}

ObjectsInit ==
    /\ now = 1
    /\ mtime = [p \in Paths |-> 1]
    /\ present = UNION {Range(Tree(d)) : d \in SourceDirs}
    /\ disk = [cache |-> Absent, commands |-> Absent]
    /\ dep_dirs = {}
    /\ output_compile_commands = TRUE
    /\ pc = "args"
    /\ err = "none"
    /\ file_cache = EmptyMap
    /\ compile_commands = EmptyMap
    /\ config_updated = FALSE
    /\ deps_todo = Dependencies
    /\ target_idx = 1
    /\ src_idx = 1
    /\ log = << >>
    /\ disk_at_start = disk
    /\ prev = NoPrev
    /\ touched = {}
    /\ call = NoCall
    /\ prev_call = NoCall
    /\ config_build = BuildConfig
    /\ \E i \in DOMAIN Targets, l \in {"C", "Cpp"},
          dirs \in Lists(SourceDirs, MaxDirs) :
          config_target = [Targets[i] EXCEPT !.language = l, !.source_dirs = dirs]
    /\ command = NoCommand

ObjectsSpec == ObjectsInit /\ [][ArgsNext]_vars

(***************************************************************************)
(* The end of compile_target on its own: the command it assembles for any  *)
(* configured linkers, any override linkers and any library references.    *)
(***************************************************************************)

\* The linkers a configuration file names.
GlobalLinkers == {"gcc", "g++", "ld"}

OverrideLinkers == {"lld"}

\* Library references: libfoo.a, foo.so, lib.a, libfoo, foo,
\* vendor/libz.so.1 and .libs.
LibraryRefs ==
    {<< "l", "i", "b", "f", "o", "o", ".", "a" >>,
     << "f", "o", "o", ".", "s", "o" >>,
     << "l", "i", "b", ".", "a" >>,
     << "l", "i", "b", "f", "o", "o" >>,
     << "f", "o", "o" >>,
     << "v", "e", "n", "d", "o", "r", "/", "l", "i", "b", "z", ".", "s", "o",
        ".", "1" >>,
     << ".", "l", "i", "b", "s" >>}

TargetTypes == {"Binary", "StaticLibrary"}

LinkInit ==
    /\ Rest
    /\ pc = "link_args"
    /\ \E c \in GlobalLinkers, cpp \in GlobalLinkers :
          config_build = [BuildConfig EXCEPT !.c_linker = c, !.cpp_linker = cpp]
    /\ \E i \in DOMAIN Targets, t \in TargetTypes, l \in Lists(LibraryRefs, MaxList),
          c \in Options(OverrideLinkers), cpp \in Options(OverrideLinkers),
          block \in BOOLEAN :
          config_target =
             [Targets[i] EXCEPT
                !.target_type = t,
                !.libraries = l,
                !.build_overrides =
                    IF block
                    THEN Some([NoOverrides EXCEPT !.c_linker = c, !.cpp_linker = cpp])
                    ELSE None]
    /\ command = NoCommand

\* compile_target for a Binary, from `let linker` up to the command it runs.
LinkBinary ==
    /\ pc = "link_args"
    /\ config_target.target_type = "Binary"
    /\ command' = [op |-> "link",
                   arguments |-> LinkCommand(config_build, config_target)]
    /\ UNCHANGED << present, now, mtime, disk, dep_dirs,
                    output_compile_commands, pc, err, builder, log,
                    disk_at_start, prev, touched, call, prev_call, config_build,
                    config_target >>

\* compile_target for a StaticLibrary, up to the command it runs.
Archive ==
    /\ pc = "link_args"
    /\ config_target.target_type = "StaticLibrary"
    /\ command' = [op |-> "archive", arguments |-> ArchiveCommand(config_target)]
    /\ UNCHANGED << present, now, mtime, disk, dep_dirs,
                    output_compile_commands, pc, err, builder, log,
                    disk_at_start, prev, touched, call, prev_call, config_build,
                    config_target >>

LinkNext == LinkBinary \/ Archive

LinkSpec == LinkInit /\ [][LinkNext]_vars

(***************************************************************************)
(* The compile-command map on its own: loaded from any compile database,   *)
(* entries that share a file field included, changed by compile_file and   *)
(* written, in any order and any number of times.                          *)
(***************************************************************************)

\* The longest compile database to start from.
MaxEntries == 2

\* The sources of the first target.
DbSources == {s \in Sources : s.dir \in Range(Targets[1].source_dirs)}

\* The [build] table before and after an edit.
DbBuilds == {BuildConfig, [BuildConfig EXCEPT !.opt_level = "2"]}

\* The entries compile_file has recorded for these sources.
DbEntries ==
    {CompileCommand(cfg, Targets[1], s, ObjectFile(Targets[1], s)) :
        cfg \in DbBuilds, s \in DbSources}

DbStages == {"db_start", "db_loaded", "db_recorded", "db_written",
             "db_reloaded", "db_rewritten"}

DbInit ==
    /\ now = 1
    /\ mtime = [p \in Paths |-> 1]
    /\ present = AllFiles
    /\ \E entries \in Lists(DbEntries, MaxEntries) :
          disk = [cache |-> Absent, commands |-> [exists |-> TRUE, data |-> entries]]
    /\ dep_dirs = {}
    /\ output_compile_commands = TRUE
    /\ pc = "db_start"
    /\ err = "none"
    /\ file_cache = EmptyMap
    /\ compile_commands = EmptyMap
    /\ config_updated = FALSE
    /\ deps_todo = Dependencies
    /\ target_idx = 1
    /\ src_idx = 1
    /\ log = << >>
    /\ disk_at_start = disk
    /\ prev = NoPrev
    /\ touched = {}
    /\ call = NoCall
    /\ prev_call = NoCall
    /\ config_build = BuildConfig
    /\ config_target = Targets[1]
    /\ command = NoCommand

\* Builder::new, lines 82-99.  pc tells a load that follows a write.
DbLoad ==
    /\ pc \in DbStages
    /\ compile_commands' = LoadCommands(disk)
    /\ disk_at_start' = disk
    /\ touched' = {}
    /\ pc' = IF pc \in {"db_written", "db_rewritten"} THEN "db_reloaded"
             ELSE "db_loaded"
    /\ UNCHANGED << present, resolver, now, mtime, disk, dep_dirs,
                    output_compile_commands, err, file_cache, config_updated,
                    deps_todo, target_idx, src_idx, log, prev, call,
                    prev_call >>

\* compile_file, lines 359-371, for src under the [build] table cfg.
\* touched holds the sources recorded since the load.
DbRecord(src, cfg) ==
    /\ pc \in DbStages \ {"db_start"}
    /\ compile_commands' =
          Insert(compile_commands, src,
                 CompileCommand(cfg, Targets[1], src, ObjectFile(Targets[1], src)))
    /\ touched' = touched \cup {src}
    /\ pc' = "db_recorded"
    /\ UNCHANGED << present, resolver, now, mtime, disk, dep_dirs,
                    output_compile_commands, err, file_cache, config_updated,
                    deps_todo, target_idx, src_idx, log, disk_at_start, prev,
                    call, prev_call >>

\* Builder::write_build_artifacts.  pc tells a write that follows a load
\* that followed a write.
DbWrite ==
    /\ pc \in DbStages \ {"db_start"}
    /\ \E entries \in Values(compile_commands) :
          disk' = write_build_artifacts(disk, entries, file_cache)
    /\ pc' = IF pc = "db_reloaded" THEN "db_rewritten" ELSE "db_written"
    /\ UNCHANGED << present, resolver, now, mtime, dep_dirs,
                    output_compile_commands, err, builder, log, disk_at_start,
                    prev, touched, call, prev_call >>

DbNext ==
    \/ DbLoad
    \/ \E src \in DbSources, cfg \in DbBuilds : DbRecord(src, cfg)
    \/ DbWrite

DatabaseSpec == DbInit /\ [][DbNext]_vars

(***************************************************************************)
(* Properties.                                                             *)
(***************************************************************************)

Compiled(s) == \E i \in CompileEvents : log[i].file = s

Skipped(s) == \E i \in DOMAIN log : log[i].op = "skip" /\ log[i].file = s

\* The name of the target whose discovery finds s.
TargetOf(s) ==
    Targets[CHOOSE i \in DOMAIN Targets : s \in Range(Discover(Targets[i]))].name

\* The cache this invocation loaded.
CacheAtStart == LoadCache(disk_at_start)

Monotone(a, b) == \A p \in DOMAIN a : p \in DOMAIN b /\ b[p] >= a[p]

\* C1: with compile-database output enabled, an invocation that follows a
\* successful one with no file modified in between invokes the compiler for
\* no source file.
C1_NoChangeCompilesNothing ==
    (pc # "idle" /\ output_compile_commands /\ prev.result = "ok" /\ touched = {})
        => CompileEvents = {}

\* The configuration file is newer than its record (or has none) in the cache
\* this invocation loaded.
ConfigNewer ==
    \/ ConfigPath \notin DOMAIN CacheAtStart
    \/ mtime[ConfigPath] > CacheAtStart[ConfigPath]

\* C2: an invocation that starts with the configuration file newer than its
\* record skips no source file, and has invoked the compiler for every source
\* file of every target once the target loop is through.
C2_ConfigChangeCompilesAll ==
    (pc # "idle" /\ ConfigNewer)
        => /\ \A s \in Sources : ~Skipped(s)
           /\ pc \in {"finish", "done"} => \A s \in Sources : Compiled(s)

C2_Witness ==
    /\ pc = "done"
    /\ ConfigPath \in DOMAIN CacheAtStart
    /\ mtime[ConfigPath] > CacheAtStart[ConfigPath]
    /\ \E s \in Sources : /\ s \in DOMAIN CacheAtStart
                          /\ mtime[s] <= CacheAtStart[s]
                          /\ Compiled(s)

\* Since the previous invocation, which succeeded and compiled nothing, the
\* source file s alone was modified, and it was written last, not put back.
OnlyModified(s) ==
    /\ pc # "idle"
    /\ prev.result = "ok"
    /\ prev.noop
    /\ touched = {s}
    /\ mtime[s] = now

\* C3: after a successful invocation that had nothing to compile, writing one
\* source file and building again invokes the compiler for that file and no
\* other, and the link step of its target follows the compile.
C3_OneEditCompilesOne ==
    \A s \in Sources :
        OnlyModified(s)
            => /\ \A i \in CompileEvents : log[i].file = s
               /\ ~Skipped(s)
               /\ \A j \in DOMAIN log :
                    (log[j].op \in {"link", "archive"} /\ log[j].name = TargetOf(s))
                        => \E i \in CompileEvents :
                              i < j /\ log[i].file = s /\ log[i].ok
               /\ pc \in {"finish", "done"}
                    => \E j \in DOMAIN log :
                          /\ log[j].op \in {"link", "archive"}
                          /\ log[j].name = TargetOf(s)
                          /\ log[j].ok

C3_Witness ==
    /\ pc = "done"
    /\ \E s \in Sources : OnlyModified(s) /\ Compiled(s)
    /\ Cardinality(CompileEvents) = 1

\* C4: is_updated on a readable file returns true exactly when the cache has
\* no record for the path or the file's time is strictly greater than the
\* record, and then the record is the file's time.
C4_IsUpdatedContract ==
    (call.path # NoPath /\ call.ok)
        => /\ call.ret <=> (~call.had \/ call.modified > call.before)
           /\ call.ret => /\ call.path \in DOMAIN file_cache
                          /\ file_cache[call.path] = call.modified
           /\ (call.had /\ call.modified <= call.before) => ~call.ret

C4_Witness ==
    /\ call.ok
    /\ call.had
    /\ call.modified > call.before
    /\ call.ret
    /\ file_cache[call.path] = call.modified

\* C5: is_updated on a path without a record returns true, and the call that
\* follows it on the same path, the file's time unchanged, returns false.
C5_SecondCallFalse ==
    (/\ prev_call.path # NoPath
     /\ prev_call.ok
     /\ ~prev_call.had
     /\ prev_call.fresh
     /\ call.path = prev_call.path
     /\ call.ok)
        => prev_call.ret /\ ~call.ret

C5_Witness ==
    /\ prev_call.path # NoPath
    /\ prev_call.ok
    /\ ~prev_call.had
    /\ prev_call.fresh
    /\ call.path = prev_call.path
    /\ call.ok
    /\ ~call.ret

\* C6: an invocation that ends in an error leaves both files of the build
\* directory as they were when it started.
C6_FailureWritesNothing ==
    (pc # "idle" /\ err # "none") => disk = disk_at_start

C6_Witness ==
    /\ pc = "failed"
    /\ err = "ExternalProcess"
    /\ disk.cache.exists
    /\ file_cache # disk.cache.data
    /\ disk = disk_at_start

\* The compile of s failed in the previous invocation, and neither s nor the
\* configuration file was modified since.
FailedLastTime(s) ==
    /\ pc # "idle"
    /\ s \in prev.failed_compile
    /\ s \notin touched
    /\ ConfigPath \notin touched

\* C7, as claimed: a source whose compile failed as stale in one invocation
\* is fresh in the next, which does not invoke the compiler for it.
C7_FailedCompileIsFresh ==
    \A s \in Sources :
        (FailedLastTime(s) /\ ~prev.config_updated) => ~Compiled(s)

\* C7, amended: a source whose compile failed in one invocation is still
\* stale in the next, which never skips it: the failed invocation did not
\* write the refreshed time to disk.
C7_FailedCompileStaysStale ==
    \A s \in Sources : FailedLastTime(s) => ~Skipped(s)

C7_Witness ==
    /\ ~config_updated
    /\ ~prev.config_updated
    /\ \E s \in Sources : FailedLastTime(s) /\ Compiled(s)

\* C8: a failed compile is the last step of its invocation: nothing is
\* compiled, linked, archived or written after it.
C8_CompileFailureStops ==
    \A i \in CompileEvents :
        ~log[i].ok => /\ i = Len(log)
                      /\ pc = "failed"
                      /\ disk = disk_at_start

C8_Witness ==
    /\ pc = "failed"
    /\ log # << >>
    /\ log[Len(log)].op = "compile"
    /\ log[Len(log)].file = Discover(Targets[1])[1]
    /\ ~log[Len(log)].ok
    /\ Len(Discover(Targets[1])) > 1

C10_CacheRewritten ==
    (pc = "done" /\ err = "none")
        => disk.cache.exists /\ disk.cache.data = file_cache

DependencyOps == {"configure", "cmake_build"}

TargetOps == {"compile", "skip", "link", "archive"}

\* Dependency d was configured and then built, both with success, before
\* step i of this invocation.
BuiltBefore(d, i) ==
    \E j, k \in 1..(i - 1) :
        /\ j < k
        /\ log[j] = Event("configure", d, NoPath, TRUE)
        /\ log[k] = Event("cmake_build", d, NoPath, TRUE)

\* C11: when the build stage of the dependencies starts, and as long as it
\* runs, the directory of every dependency is there and every clone of this
\* invocation has succeeded and lies before every configure or build step;
\* and every compile, skip, link or archive step of a target comes after a
\* successful configure and build of every dependency.
C11_StagesInOrder ==
    /\ (pc = "depbuild" \/ \E i \in DOMAIN log : log[i].op \in DependencyOps)
          => /\ Dependencies \subseteq dep_dirs
             /\ \A j \in DOMAIN log :
                  log[j].op = "clone"
                     => /\ log[j].ok
                        /\ \A i \in DOMAIN log :
                              log[i].op \in DependencyOps => j < i
    /\ pc \in {"compile", "link", "finish", "done"}
          => \A d \in Dependencies : BuiltBefore(d, Len(log) + 1)
    /\ \A i \in DOMAIN log :
          log[i].op \in TargetOps
             => /\ \A d \in Dependencies : BuiltBefore(d, i)
                /\ \A j \in DOMAIN log :
                      log[j].op \in DependencyOps \cup {"clone"} => j < i

C11_Witness ==
    /\ pc = "done"
    /\ \A d \in Dependencies :
          \E j \in DOMAIN log : log[j] = Event("clone", d, NoPath, TRUE)
    /\ CompileEvents # {}

\* The place of a target in the declaration order.
TargetIndex(name) == CHOOSE i \in DOMAIN Targets : Targets[i].name = name

\* C12: the compile, skip, link and archive steps of an invocation follow the
\* declaration order of their targets; the link or archive step of a target
\* is the last step of that target and comes after a successful compile or a
\* skip of every source of the target; and a step of a target comes after a
\* successful link or archive step of every target declared before it.
C12_TargetsInOrder ==
    \A j \in DOMAIN log :
        log[j].op \in TargetOps
           => /\ \A i \in 1..(j - 1) :
                    log[i].op \in TargetOps
                       => /\ TargetIndex(log[i].name) <= TargetIndex(log[j].name)
                          /\ log[i].name = log[j].name
                                => log[i].op \in {"compile", "skip"} /\ log[i].ok
              /\ log[j].op \in {"link", "archive"}
                    => \A s \in Range(Discover(Targets[TargetIndex(log[j].name)])) :
                          \E i \in 1..(j - 1) :
                              /\ log[i].op \in {"compile", "skip"}
                              /\ log[i].name = log[j].name
                              /\ log[i].file = s
              /\ \A t \in 1..(TargetIndex(log[j].name) - 1) :
                    \E i \in 1..(j - 1) :
                        /\ log[i].op \in {"link", "archive"}
                        /\ log[i].name = Targets[t].name
                        /\ log[i].ok

C12_Witness ==
    /\ pc = "done"
    /\ \A t \in DOMAIN Targets :
          \E i \in CompileEvents : log[i].name = Targets[t].name
    /\ Cardinality(CompileEvents) = Cardinality(Sources)

\* C13: no step clones a dependency whose directory is there; every step of
\* the dependency build stage runs configure for a dependency, and the build
\* right after a configure that succeeded; and an invocation that is through
\* the stage has run both for every dependency.
C13_NoRecloneAlwaysRebuild ==
    [][/\ \A i \in (DOMAIN log') \ (DOMAIN log) :
             log'[i].op = "clone" => log'[i].name \notin dep_dirs
       /\ pc = "depbuild"
             => \E d \in deps_todo :
                   /\ Len(log') > Len(log)
                   /\ log'[Len(log) + 1].op = "configure"
                   /\ log'[Len(log) + 1].name = d
                   /\ IF log'[Len(log) + 1].ok
                      THEN /\ Len(log') = Len(log) + 2
                           /\ log'[Len(log) + 2].op = "cmake_build"
                           /\ log'[Len(log) + 2].name = d
                      ELSE Len(log') = Len(log) + 1
       /\ (pc = "depbuild" /\ pc' \notin {"depbuild", "failed"})
             => \A d \in Dependencies :
                   \E j, k \in DOMAIN log' :
                       /\ j < k
                       /\ log'[j].op = "configure" /\ log'[j].name = d
                       /\ log'[k].op = "cmake_build" /\ log'[k].name = d]_vars

\* An invocation that follows a successful one has configured and built a
\* dependency again, and has cloned nothing.
C13_Witness ==
    /\ prev.result = "ok"
    /\ pc \in {"compile", "link"}
    /\ \A i \in DOMAIN log : log[i].op # "clone"
    /\ \A d \in Dependencies :
          \E j \in DOMAIN log : log[j] = Event("cmake_build", d, NoPath, TRUE)

\* The list r is the list g followed by the list a.
Followed(r, g, a) ==
    /\ Len(r) = Len(g) + Len(a)
    /\ \A i \in DOMAIN g : r[i] = g[i]
    /\ \A i \in DOMAIN a : r[Len(g) + i] = a[i]

\* C14: in a compile command the flags are the global flags followed by the
\* override flags of the target, and the warnings are a -W for each global
\* warning followed by a -W for each override warning; a target with no
\* override block, or a block without the list, gets the global list alone.
C14_ListsMerged ==
    command.op = "compile"
       => LET block == config_target.build_overrides
              args == command.arguments
              global == Prefixed("-W", config_build.warnings)
          IN /\ block = None
                  => /\ args.flags = config_build.flags
                     /\ args.warnings = global
             /\ block # None
                  => /\ block[1].flags = None => args.flags = config_build.flags
                     /\ block[1].flags # None
                           => Followed(args.flags, config_build.flags,
                                       block[1].flags[1])
                     /\ block[1].warnings = None => args.warnings = global
                     /\ block[1].warnings # None
                           => Followed(args.warnings, global,
                                       Prefixed("-W", block[1].warnings[1]))

C14_Witness ==
    /\ command.op = "compile"
    /\ config_build.flags = << "-pipe" >>
    /\ config_build.warnings = << "all" >>
    /\ config_target.build_overrides # None
    /\ config_target.build_overrides[1].flags = Some(<< "-fPIC" >>)
    /\ config_target.build_overrides[1].warnings = Some(<< "shadow" >>)
    /\ command.arguments.flags = << "-pipe", "-fPIC" >>
    /\ command.arguments.warnings = << "-Wall", "-Wshadow" >>

\* C15: the program of a link command is the override linker of the
\* target's language when the target has one, and else the linker the
\* global configuration names for that language.
C15_LinkerResolved ==
    command.op = "link"
       => LET block == config_target.build_overrides
              c == config_target.language = "C"
              override == IF block = None THEN None
                          ELSE IF c THEN block[1].c_linker
                          ELSE block[1].cpp_linker
              global == IF c THEN config_build.c_linker
                        ELSE config_build.cpp_linker
          IN command.arguments.program =
                IF override # None THEN override[1] ELSE global

\* name is stem, or stem followed by a dot and an extension without a dot.
StemOf(stem, name) ==
    \/ /\ stem = name
       /\ \A k \in 2..Len(name) : name[k] # "."
    \/ \E k \in 2..Len(name) :
          /\ name[k] = "."
          /\ \A j \in (k + 1)..Len(name) : name[j] # "."
          /\ stem = SubSeq(name, 1, k - 1)

\* C16: the -l flag of a library reference is "-l" followed by the file name
\* of the reference without its extension and without a leading "lib":
\* libfoo.a and foo.so both give -lfoo.
C16_LibraryFlags ==
    command.op = "link"
       => LET refs == config_target.libraries
              given == command.arguments.libraries
              foo == << "-", "l", "f", "o", "o" >>
          IN /\ Len(given) = Len(refs)
             /\ \A i \in DOMAIN refs :
                   /\ SubSeq(given[i], 1, 2) = << "-", "l" >>
                   /\ \E stem \in {SubSeq(refs[i], a, b) : a, b \in DOMAIN refs[i]} :
                         /\ StemOf(stem, FileName(refs[i]))
                         /\ IF Len(stem) >= 3 /\ SubSeq(stem, 1, 3) = << "l", "i", "b" >>
                            THEN given[i] = << "-", "l" >> \o SubSeq(stem, 4, Len(stem))
                            ELSE given[i] = << "-", "l" >> \o stem
                   /\ refs[i] = << "l", "i", "b", "f", "o", "o", ".", "a" >>
                         => given[i] = foo
                   /\ refs[i] = << "f", "o", "o", ".", "s", "o" >>
                         => given[i] = foo

C16_Witness ==
    /\ command.op = "link"
    /\ config_target.libraries = << << "l", "i", "b", "f", "o", "o", ".", "a" >> >>
    /\ command.arguments.libraries = << << "-", "l", "f", "o", "o" >> >>

\* The entry of the vector that a load keeps for the path: the last one
\* whose file field names it.
Kept(entries, path) ==
    entries[Last({i \in DOMAIN entries : PathFrom(entries[i].file) = path})]

\* C17: the map holds every entry under the path its file field names, so
\* no source path has two; recording a compile of a source puts the new
\* entry in the place of the one the source had and touches no other; and a
\* write gives every source one entry, which for a source not compiled
\* since the load is the entry the loaded compile database had for it.
C17_OneEntryPerSource ==
    [][/\ \A p \in DOMAIN compile_commands' :
             PathFrom(compile_commands'[p].file) = p
       /\ \A src \in DbSources, cfg \in DbBuilds :
             DbRecord(src, cfg)
                => /\ DOMAIN compile_commands' = DOMAIN compile_commands \cup {src}
                   /\ compile_commands'[src] =
                         CompileCommand(cfg, Targets[1], src,
                                        ObjectFile(Targets[1], src))
                   /\ \A p \in DOMAIN compile_commands \ {src} :
                         compile_commands'[p] = compile_commands[p]
       /\ DbWrite
             => LET written == disk'.commands.data
                    loaded == disk_at_start.commands.data
                IN /\ \A i, j \in DOMAIN written :
                         written[i].file = written[j].file => i = j
                   /\ {PathFrom(written[i].file) : i \in DOMAIN written}
                         = DOMAIN compile_commands
                   /\ \A p \in DOMAIN compile_commands \ touched :
                         \E i \in DOMAIN written : written[i] = Kept(loaded, p)]_vars

\* A compile database with an entry for each of two sources was loaded, one
\* source was compiled under another [build] table and the map was written:
\* the new entry has replaced the old one, the other entry is as loaded.
C17_Witness ==
    /\ pc = "db_written"
    /\ Cardinality(touched) = 1
    /\ Len(disk_at_start.commands.data) = 2
    /\ Len(disk.commands.data) = 2
    /\ \A s \in DbSources :
          \E i \in DOMAIN disk.commands.data, k \in DOMAIN disk_at_start.commands.data :
              /\ PathFrom(disk.commands.data[i].file) = s
              /\ PathFrom(disk_at_start.commands.data[k].file) = s
              /\ (disk.commands.data[i] = disk_at_start.commands.data[k])
                    <=> s \notin touched

\* The compilation units of a build: the sources discovered for some target.
CompilationUnits == UNION {Range(Discover(Targets[i])) : i \in DOMAIN Targets}

\* C18: after a successful invocation with compile-database output enabled
\* the compile database on disk has one entry for every source discovered
\* for some target, and no other entry.
C18_DatabaseMatchesSources ==
    (pc = "done" /\ err = "none" /\ output_compile_commands)
       => /\ disk.commands.exists
          /\ {PathFrom(disk.commands.data[i].file) : i \in DOMAIN disk.commands.data}
                = CompilationUnits
          /\ Len(disk.commands.data) = Cardinality(CompilationUnits)

\* The compile database a load reads: the vector on disk, or none.
OnDisk == IF disk.commands.exists THEN disk.commands.data ELSE << >>

\* C19: a load gives a map keyed by the file fields of the entries, in which
\* the last of the entries that share a file field stays; and a write that
\* follows a load that followed a write gives the entries the first write
\* gave, each once.
C19_RoundTrip ==
    [][/\ DbLoad
             => /\ DOMAIN compile_commands'
                      = {PathFrom(OnDisk[i].file) : i \in DOMAIN OnDisk}
                /\ \A i \in DOMAIN OnDisk :
                      (\A j \in DOMAIN OnDisk : j > i => OnDisk[j].file # OnDisk[i].file)
                         => compile_commands'[PathFrom(OnDisk[i].file)] = OnDisk[i]
       /\ (pc = "db_reloaded" /\ DbWrite)
             => /\ Range(disk'.commands.data) = Range(disk.commands.data)
                /\ Len(disk'.commands.data) = Len(disk.commands.data)]_vars

\* Two entries were written, loaded and written again, the second time in
\* the other order.
C19_Witness ==
    /\ pc = "db_rewritten"
    /\ Len(disk.commands.data) = 2
    /\ disk.commands.data # disk_at_start.commands.data
    /\ Range(disk.commands.data) = Range(disk_at_start.commands.data)

\* C20: is_updated on a file that is missing or cannot be read returns an
\* error and leaves the cache as it was.
C20_ErrorLeavesCache ==
    [][\A p \in CachePaths :
          (CacheCall(p) /\ ~call'.readable)
             => /\ ~call'.ok
                /\ file_cache' = file_cache]_vars

C20_Witness ==
    /\ call.path # NoPath
    /\ ~call.readable
    /\ ~call.ok
    /\ call.had
    /\ file_cache[call.path] = call.before
    /\ mtime[call.path] > call.before

(***************************************************************************)
(* C21: the -D arguments of every compile command are the global defines,  *)
(* one "-D<define>" per define and in their order, whatever the override   *)
(* block of the target holds in its own defines list: that list neither    *)
(* replaces the global defines nor adds to them.                           *)
(***************************************************************************)
C21_DefinesGlobalOnly ==
    command.op = "compile" =>
        LET flags == command.arguments.defines
            defines == config_build.defines
        IN /\ Len(flags) = Len(defines)
           /\ \A i \in 1..Len(defines) : flags[i] = "-D" \o defines[i]

\* A compile command of a target whose override block has defines of its
\* own, other than the two distinct global ones.
C21_Witness ==
    /\ command.op = "compile"
    /\ Len(config_build.defines) = 2
    /\ config_build.defines[1] # config_build.defines[2]
    /\ Override(config_target, "defines") # None
    /\ Override(config_target, "defines")[1] # << >>
    /\ Override(config_target, "defines")[1] # config_build.defines
    /\ command.arguments.defines = << "-D" \o config_build.defines[1],
                                      "-D" \o config_build.defines[2] >>

(***************************************************************************)
(* C22: build_dependency for a dependency whose directory                  *)
(* <dep_dir>/<name> does not exist returns the dependency-not-found error  *)
(* and runs nothing for it.  In every step of the dependency build stage:  *)
(* a step that does not fail has handled a dependency whose directory      *)
(* exists; when no remaining dependency has a directory, the step fails    *)
(* with the not-found error and runs no command at all; and whatever the   *)
(* step runs is a configure or a build (never a clone) of a dependency     *)
(* whose directory exists.                                                 *)
(***************************************************************************)
C22_MissingDependencyFails ==
    [][BuildDependency =>
          LET handled == IF pc' = "depbuild" THEN deps_todo \ deps_todo'
                         ELSE deps_todo
              ran == {log'[i] : i \in (Len(log) + 1)..Len(log')}
          IN /\ pc' # "failed" => handled \subseteq dep_dirs
             /\ deps_todo \cap dep_dirs = {} =>
                   /\ pc' = "failed"
                   /\ err' = "DependencyMissing"
                   /\ log' = log
             /\ \A e \in ran : e.op \in DependencyOps /\ e.name \in dep_dirs
             /\ err' = "DependencyMissing" =>
                   /\ pc' = "failed"
                   /\ log' = log
                   /\ deps_todo \ dep_dirs # {}]_vars

\* The stage has failed with the not-found error after the clone of the
\* dependency succeeded in this invocation, and nothing was configured.
C22_Witness ==
    /\ pc = "failed"
    /\ err = "DependencyMissing"
    /\ \E i \in DOMAIN log : log[i].op = "clone" /\ log[i].ok
                               /\ log[i].name \notin dep_dirs
    /\ \A i \in DOMAIN log : log[i].op \notin DependencyOps

\* The value compile_file is to use for a field that holds one value: the
\* one of the target's override block when the block has the field, the
\* global one otherwise.
Resolved(field) ==
    LET block == config_target.build_overrides
    IN IF block # None /\ block[1][field] # None THEN block[1][field][1]
       ELSE config_build[field]

Count(args, arg) == Cardinality({i \in DOMAIN args : args[i] = arg})

(***************************************************************************)
(* C23: in every compile command the compiler and the standard (those of   *)
(* the target's language), the optimization level, -g and -Werror follow   *)
(* the override block where it has the field and the global configuration  *)
(* otherwise; -g and -Werror are there, once, exactly when the resolved    *)
(* boolean is true, and nothing else is among the extra arguments.         *)
(***************************************************************************)
C23_ScalarsResolved ==
    command.op = "compile" =>
        LET a == command.arguments
            c == config_target.language = "C"
        IN /\ a.program = Resolved(IF c THEN "c_compiler" ELSE "cpp_compiler")
           /\ a.std = "-std=" \o Resolved(IF c THEN "c_standard" ELSE "cpp_standard")
           /\ a.opt_level = "-O" \o Resolved("opt_level")
           /\ Count(a.extra_args, "-g") = IF Resolved("debug") THEN 1 ELSE 0
           /\ Count(a.extra_args, "-Werror") =
                 IF Resolved("warnings_as_errors") THEN 1 ELSE 0
           /\ Range(a.extra_args) \subseteq {"-g", "-Werror"}

\* A compile command of a C target whose override block replaces the
\* optimization level, turns the global -g off and -Werror on, names a
\* compiler of the other language only, and leaves the standard alone.
C23_Witness ==
    /\ command.op = "compile"
    /\ config_target.language = "C"
    /\ config_target.build_overrides # None
    /\ Override(config_target, "opt_level") = Some("3")
    /\ config_build.opt_level = "2"
    /\ config_build.debug /\ Override(config_target, "debug") = Some(FALSE)
    /\ ~config_build.warnings_as_errors
    /\ Override(config_target, "warnings_as_errors") = Some(TRUE)
    /\ Override(config_target, "c_compiler") = None
    /\ Override(config_target, "cpp_compiler") = Some("clang++")
    /\ Override(config_target, "c_standard") = None
    /\ command.arguments.program = "gcc"
    /\ command.arguments.std = "-std=c11"
    /\ command.arguments.opt_level = "-O3"
    /\ command.arguments.extra_args = << "-Werror" >>

(***************************************************************************)
(* C24: a call is_updated(p) changes at most the record of p.  Every other *)
(* path has a record after the call exactly when it had one before, with   *)
(* the same time; and when the call returns false, the whole cache, the    *)
(* record of p included, is as it was.                                     *)
(***************************************************************************)
C24_OnlyOwnRecord ==
    [][\A p \in CachePaths :
          CacheCall(p) =>
             /\ \A q \in CachePaths \ {p} :
                   /\ q \in DOMAIN file_cache' <=> q \in DOMAIN file_cache
                   /\ q \in DOMAIN file_cache => file_cache'[q] = file_cache[q]
             /\ DOMAIN file_cache' \subseteq DOMAIN file_cache \cup {p}
             /\ call'.ok /\ ~call'.ret => file_cache' = file_cache]_vars

\* A call that returned true and replaced the record of its path while
\* another path kept a record of a different time, after a call that
\* returned false.
C24_Witness ==
    /\ call.ok /\ call.ret /\ call.had
    /\ file_cache[call.path] = call.modified
    /\ call.before # call.modified
    /\ \E q \in DOMAIN file_cache \ {call.path} : file_cache[q] # call.modified
    /\ prev_call.path # NoPath
    /\ prev_call.ok /\ ~prev_call.ret

(***************************************************************************)
(* C25: when the clone, the configure step or the build step of a          *)
(* dependency exits nonzero, the invocation ends in error there: the       *)
(* failed command is the last thing it ran, and it has created no target   *)
(* output directory, compiled or skipped no source file, and linked or     *)
(* archived no target.                                                     *)
(***************************************************************************)
C25_DependencyFailureStops ==
    \A i \in DOMAIN log :
        (log[i].op \in {"clone"} \cup DependencyOps /\ ~log[i].ok) =>
            /\ i = Len(log)
            /\ pc = "failed"
            /\ err = "ExternalProcess"
            /\ \A j \in DOMAIN log : log[j].op \notin {"create_dir"} \cup TargetOps

\* The build step of the second dependency failed, after both were cloned
\* and the first was configured and built.
C25_Witness ==
    /\ pc = "failed"
    /\ Len(log) = 6
    /\ log[6].op = "cmake_build" /\ ~log[6].ok
    /\ \E i \in 1..5 : log[i].op = "cmake_build" /\ log[i].ok
                         /\ log[i].name # log[6].name
    /\ dep_dirs = Dependencies

\* The positions of the log where `target` was linked or archived.
LinkEvents(target) ==
    {i \in DOMAIN log : log[i].op \in {"link", "archive"} /\ log[i].name = target.name}

\* The step of a target's type, and the file it is to produce.
StepOf(target) == IF target.target_type = "Binary" THEN "link" ELSE "archive"

OutputOf(target) ==
    IF target.target_type = "Binary" THEN File(target.name, target.name, "")
    ELSE File(target.name, "lib" \o target.name, "a")

(***************************************************************************)
(* C26: in a successful invocation every target is linked (a Binary) or    *)
(* archived (a StaticLibrary) exactly once, after each of its discovered   *)
(* source files was compiled or skipped; and the command of that step      *)
(* takes the object path <build_dir>/<name>/<stem>.o of every discovered   *)
(* source file, in their order, skipped ones included, and produces        *)
(* <build_dir>/<name>/<name> or <build_dir>/<name>/lib<name>.a.            *)
(***************************************************************************)
C26_LinkOncePerTarget ==
    /\ [](pc \in {"finish", "done"} =>
             \A t \in DOMAIN Targets :
                LET target == Targets[t]
                IN /\ Cardinality(LinkEvents(target)) = 1
                   /\ \A i \in LinkEvents(target) :
                         /\ log[i].op = StepOf(target)
                         /\ log[i].ok
                         /\ \A s \in Range(Discover(target)) :
                               \E j \in 1..(i - 1) :
                                  /\ log[j].op \in {"compile", "skip"}
                                  /\ log[j].file = s
                                  /\ log[j].name = target.name
                         /\ \A j \in DOMAIN log :
                               (log[j].name = target.name /\ j # i) => j < i)
    /\ [][LinkTarget =>
             LET target == Targets[target_idx]
                 src_files == Discover(target)
             IN /\ command'.op = StepOf(target)
                /\ command'.arguments.output = OutputOf(target)
                /\ command'.arguments.obj_files =
                      [i \in DOMAIN src_files |->
                          File(target.name, src_files[i].stem, "o")]
                /\ Len(log') = Len(log) + 1
                /\ log'[Len(log')].op = command'.op
                /\ log'[Len(log')].name = target.name]_vars

\* A successful invocation that compiled nothing of the first target, a
\* Binary of two source files, and nothing of the last, a StaticLibrary,
\* and linked and archived them all the same; the archive command is the
\* last command it assembled.
C26_Witness ==
    /\ pc = "done"
    /\ Len(Discover(Targets[1])) = 2
    /\ \A i \in DOMAIN log : log[i].op # "compile"
    /\ \E i \in DOMAIN log : log[i].op = "skip" /\ log[i].name = Targets[1].name
    /\ LinkEvents(Targets[1]) # {}
    /\ LinkEvents(Targets[2]) # {}
    /\ command.op = "archive"
    /\ command.arguments.output = File("util", "libutil", "a")
    /\ command.arguments.obj_files = << File("util", "c", "o") >>

(***************************************************************************)
(* C27: after a successful invocation that wrote its artifacts, the cache  *)
(* on disk has a record for every source file discovered for any target,   *)
(* not older than the modification time of the file (no file is modified   *)
(* while an invocation runs, so that is the time it had when examined).    *)
(***************************************************************************)
C27_SourcesRecorded ==
    (pc = "done" /\ output_compile_commands) =>
        /\ disk.cache.exists
        /\ \A t \in DOMAIN Targets :
              \A s \in Range(Discover(Targets[t])) :
                 /\ s \in DOMAIN disk.cache.data
                 /\ disk.cache.data[s] >= mtime[s]

(***************************************************************************)
(* C28: within one target, the compile steps of two distinct source files  *)
(* write two distinct object files: no compile step writes the object      *)
(* file that the step before it wrote for another source of the target.    *)
(***************************************************************************)
C28_DistinctObjects ==
    [][(/\ command.op = "compile"
        /\ command'.op = "compile"
        /\ command'.arguments.src # command.arguments.src)
          => command'.arguments.obj # command.arguments.obj]_vars

====
